---- MODULE Spec2Model ----
(***************************************************************************)
(* A model of the CloudStack compute driver                                *)
(* (libcloud/compute/drivers/cloudstack.py): the synchronous and           *)
(* asynchronous request protocol of CloudStackConnection and the node,     *)
(* address and forwarding-rule operations of CloudStackNodeDriver.         *)
(*                                                                         *)
(* The driver is single-threaded and blocking: one driver call is in       *)
(* progress at a time, `call` names it and `pc` is its position.  The      *)
(* remote API is the environment: every decoded response is drawn from a   *)
(* small set of well-formed and malformed JSON objects.                    *)
(***************************************************************************)
EXTENDS Integers, Sequences, FiniteSets, TLC

\* ---------------------------------------------------------------- bounds
MaxVM == 1          \* virtual machine ids 1..MaxVM
MaxAddr == 2        \* public address ids 1..MaxAddr
MaxRule == 1        \* forwarding rule ids 1..MaxRule
MaxPending == 1     \* longest run of pending poll responses of one job
MaxRequests == 1    \* the request counter of one call saturates here
MaxParams == 2      \* most parameters of one request, before the default ones

VMs == 1..MaxVM
AddrIds == 1..MaxAddr
RuleIds == 1..MaxRule

\* The dotted address string of the remote address record with id a.
IpOf(a) == <<10, 0, 0, a>>

\* ------------------------------------------------------- string helpers
Commands ==
  {"listVirtualMachines", "listPublicIpAddresses", "listIpForwardingRules",
   "listZones", "listNetworks", "deployVirtualMachine", "associateIpAddress",
   "disableStaticNat", "createIpForwardingRule", "deleteIpForwardingRule",
   "queryAsyncJobResult"}

\* str.lower() on the command names the driver sends.
Lower ==
  [c \in Commands |->
     CASE c = "listVirtualMachines" -> "listvirtualmachines"
       [] c = "listPublicIpAddresses" -> "listpublicipaddresses"
       [] c = "listIpForwardingRules" -> "listipforwardingrules"
       [] c = "listZones" -> "listzones"
       [] c = "listNetworks" -> "listnetworks"
       [] c = "deployVirtualMachine" -> "deployvirtualmachine"
       [] c = "associateIpAddress" -> "associateipaddress"
       [] c = "disableStaticNat" -> "disablestaticnat"
       [] c = "createIpForwardingRule" -> "createipforwardingrule"
       [] c = "deleteIpForwardingRule" -> "deleteipforwardingrule"
       [] c = "queryAsyncJobResult" -> "queryasyncjobresult"]

\* Protocol strings a caller or the remote API supplies.
Protocols == {"tcp", "ICMP"}

\* str.upper() on the protocol strings.
Upper ==
  [p \in Protocols |->
     CASE p = "tcp" -> "TCP"
       [] p = "ICMP" -> "ICMP"]

\* --------------------------------------------------- dicts and lists
EmptyDict == [x \in {} |-> 0]

\* d[k] = v on a dict.
DictSet(d, k, v) == [x \in DOMAIN d \cup {k} |-> IF x = k THEN v ELSE d[x]]

\* d.get(k, default)
DictGet(d, k, default) == IF k \in DOMAIN d THEN d[k] ELSE default

\* Index of the first element of s with the given id, 0 if there is none
\* (CloudStackAddress.__eq__ and CloudStackForwardingRule.__eq__ compare ids).
IndexOfId(s, id) ==
  IF \E i \in DOMAIN s : s[i].id = id
  THEN CHOOSE i \in DOMAIN s : s[i].id = id /\ \A j \in 1..(i-1) : s[j].id # id
  ELSE 0

\* Index of the first element of s equal to x, 0 if there is none.
IndexOf(s, x) ==
  IF \E i \in DOMAIN s : s[i] = x
  THEN CHOOSE i \in DOMAIN s : s[i] = x /\ \A j \in 1..(i-1) : s[j] # x
  ELSE 0

\* The elements of the list s.
Range(s) == {s[i] : i \in DOMAIN s}

\* The list s without its element at index i.
RemoveAt(s, i) == [j \in 1..(Len(s)-1) |-> IF j < i THEN s[j] ELSE s[j+1]]

\* --------------------------------------------------------- resources
\* CloudStackAddress(node, id, address); the back-reference to the node
\* takes no part in equality and is left out.
CloudStackAddress(id, address) == [id |-> id, address |-> address]

\* CloudStackForwardingRule(node, id, address, protocol, ...).
CloudStackForwardingRule(id, address, protocol) ==
  [id |-> id, address |-> address, protocol |-> protocol]

\* The address objects a caller can hold: those the remote API describes.
AddressObjects == {CloudStackAddress(a, IpOf(a)) : a \in AddrIds}

\* ------------------------------------------------------------ state
VARIABLES
  nodes,      \* the Node objects the caller holds, keyed by node id
  call,       \* the driver call in progress or last finished, with its arguments
  pc,         \* position of the call: "idle" when no call is in progress
  outcome,    \* how the call ended: returned value or raised error
  requests,   \* network requests the call has issued (saturates at MaxRequests)
  sync,       \* the latest _sync_request of the call: command, response, result
  job_id,     \* _async_request: the job id the submit returned
  result,     \* _async_request: the local `result`
  pendings,   \* pending poll responses the job has given so far
  slept,      \* a poll-interval wait took place since the latest poll
  listed,     \* list_nodes: the listings received (its locals vms, addrs; rules)
  released,   \* per held node, the addresses released from it while held
  params,     \* signing: params.items() of a request, in the dict's order
  other,      \* signing: params.items() of a second request
  signature   \* signing: the signatures computed so far, params' first

vars ==
  <<nodes, call, pc, outcome, requests, sync, job_id, result, pendings,
    slept, listed, released, params, other, signature>>

\* The state of the request signer.
signing == <<params, other, signature>>

NoAddress == CloudStackAddress(0, <<>>)
NoCall ==
  [op |-> "", command |-> "", node |-> 0, address |-> NoAddress, rule |-> 0,
   protocol |-> ""]
NoOutcome == [kind |-> "none", error |-> "", value |-> ""]
NoSync ==
  [command |-> "", response |-> EmptyDict, kind |-> "none", error |-> "",
   value |-> EmptyDict]
NoListing == [vms |-> EmptyDict, addrs |-> EmptyDict, rules |-> <<>>]

\* The driver after construction, no call made.
Constructed ==
  /\ nodes = EmptyDict
  /\ call = NoCall
  /\ pc = "idle"
  /\ outcome = NoOutcome
  /\ requests = 0
  /\ sync = NoSync
  /\ job_id = 0
  /\ result = EmptyDict
  /\ pendings = 0
  /\ slept = FALSE
  /\ listed = NoListing
  /\ released = EmptyDict

Init ==
  /\ Constructed
  /\ params = <<>>
  /\ other = <<>>
  /\ signature = <<>>

\* ------------------------------------------------- decoded responses
\* A decoded JSON body carrying the payload under '<command>response'.
Response(command, payload) ==
  [k \in {Lower[command] \o "response"} |-> payload]

\* A decoded JSON body with some other top-level key.
SomethingElse == [k \in {"somethingelseresponse"} |-> EmptyDict]

\* ------------------------------------------------ CloudStackConnection
\* _sync_request on the decoded body `response` (self.request(...).object).
\* The decoded body is a plain dict, so evaluating result.body while
\* building the MalformedResponseError raises AttributeError instead.
SyncRequest(command, response) ==
  LET key == Lower[command] \o "response" IN
  IF key \notin DOMAIN response
  THEN [kind |-> "raise", error |-> "AttributeError", value |-> EmptyDict]
  ELSE [kind |-> "ok", error |-> "", value |-> response[key]]

\* The record of a _sync_request kept in `sync`.
SyncRecord(command, response) ==
  LET r == SyncRequest(command, response) IN
  [command |-> command, response |-> response, kind |-> r.kind,
   error |-> r.error, value |-> r.value]

Inc(n) == IF n < MaxRequests THEN n + 1 ELSE n

\* The call ends by raising error e.
Raise(e) ==
  /\ pc' = "idle"
  /\ outcome' = [kind |-> "raised", error |-> e, value |-> ""]

\* The call ends by returning v.
Return(v) ==
  /\ pc' = "idle"
  /\ outcome' = [kind |-> "returned", error |-> "", value |-> v]

\* A driver call starts: its locals are fresh.
Begin(op, command, node, address, rule, protocol) ==
  /\ call' = [op |-> op, command |-> command, node |-> node,
              address |-> address, rule |-> rule, protocol |-> protocol]
  /\ requests' = 0
  /\ sync' = NoSync
  /\ job_id' = 0
  /\ result' = EmptyDict
  /\ pendings' = 0
  /\ slept' = FALSE
  /\ listed' = NoListing

\* result.get('jobstatus', 0)
JobStatus(r) == DictGet(r, "jobstatus", 0)

\* Lines 133-138 of _async_request: the (success, result) pair computed
\* from the final poll result.  No path of the loop above them leaves it.
AsyncResult(r) ==
  IF r.jobstatus = 2 THEN <<FALSE, r>> ELSE <<TRUE, r.jobresult>>

SubmitResponses(command) ==
  {Response(command, [jobid |-> 1]), Response(command, EmptyDict),
   SomethingElse}

Succeeded == [jobstatus |-> 1, jobresult |-> [id |-> 1]]
Failed == [jobstatus |-> 2, jobresult |-> [errortext |-> "failed"]]

\* What the remote API may answer to the next poll: a job stays pending for
\* at most MaxPending polls and keeps its terminal status once it has one.
PollPayloads ==
  IF JobStatus(result) # 0 THEN {result}
  ELSE {Succeeded, Failed}
       \cup (IF pendings < MaxPending
             THEN {[jobstatus |-> 0], [jobid |-> job_id]} ELSE {})

PollResponses ==
  {Response("queryAsyncJobResult", p) : p \in PollPayloads} \cup {SomethingElse}

\* _async_request line 123-124: submit the command, read the job id.
AsyncSubmit ==
  /\ pc = "submit"
  /\ \E response \in SubmitResponses(call.command) :
       LET r == SyncRequest(call.command, response) IN
       /\ sync' = SyncRecord(call.command, response)
       /\ requests' = Inc(requests)
       /\ IF r.kind = "raise"
          THEN Raise(r.error) /\ UNCHANGED <<job_id, result>>
          ELSE IF "jobid" \notin DOMAIN r.value
          THEN Raise("KeyError") /\ UNCHANGED <<job_id, result>>
          ELSE /\ pc' = "poll"
               /\ job_id' = r.value.jobid
               /\ result' = r.value
               /\ UNCHANGED outcome
  /\ UNCHANGED <<nodes, call, pendings, slept, listed, released>>
  /\ UNCHANGED signing

\* _async_request lines 128-130: one poll; a pending job continues the loop
\* at once, any other status falls through to the sleep of line 131.
AsyncPoll ==
  /\ pc = "poll"
  /\ \E response \in PollResponses :
       LET r == SyncRequest("queryAsyncJobResult", response) IN
       /\ sync' = SyncRecord("queryAsyncJobResult", response)
       /\ requests' = Inc(requests)
       /\ slept' = FALSE
       /\ IF r.kind = "raise"
          THEN Raise(r.error) /\ result' = EmptyDict /\ pendings' = 0
          ELSE /\ result' = r.value
               /\ IF JobStatus(r.value) = 0
                  THEN pc' = "poll" /\ pendings' = pendings + 1
                  ELSE pc' = "sleep" /\ UNCHANGED pendings
               /\ UNCHANGED outcome
  /\ UNCHANGED <<nodes, call, job_id, listed, released>>
  /\ UNCHANGED signing

\* _async_request line 131: time.sleep(async_poll_frequency), then the loop
\* starts over.
AsyncSleep ==
  /\ pc = "sleep"
  /\ pc' = "poll"
  /\ slept' = TRUE
  /\ UNCHANGED <<nodes, call, outcome, requests, sync, job_id, result,
                 pendings, listed, released>>
  /\ UNCHANGED signing

\* ------------------------------------------------ CloudStackNodeDriver
\* The caller's Node object: id, public_ip and the extras 'ip_addresses'
\* and 'ip_forwarding_rules'.
Node(id, public_ip, ip_addresses, ip_forwarding_rules) ==
  [id |-> id, public_ip |-> public_ip, ip_addresses |-> ip_addresses,
   ip_forwarding_rules |-> ip_forwarding_rules]

\* --- what the remote API lists
\* listVirtualMachines payload for the set `present` of virtual machines.
VmListing(present) ==
  IF present = {} THEN EmptyDict
  ELSE [virtualmachine |->
          SelectSeq([v \in 1..MaxVM |-> [id |-> v]],
                    LAMBDA r : r.id \in present)]

\* One record of listPublicIpAddresses: vm = 0 is an address bound to no
\* virtual machine (the record has no 'virtualmachineid').
AddrRecord(a, vm) ==
  IF vm = 0 THEN [id |-> a, ipaddress |-> IpOf(a)]
  ELSE [id |-> a, ipaddress |-> IpOf(a), virtualmachineid |-> vm]

\* listPublicIpAddresses payload; addrVm[a] = -1 is an address not listed.
AddrListing(addrVm) ==
  [publicipaddress |->
     SelectSeq([a \in 1..MaxAddr |-> AddrRecord(a, addrVm[a])],
               LAMBDA r : addrVm[r.id] # -1)]

\* listIpForwardingRules payload; ruleAddr[r] = 0 is a rule that does not
\* exist, otherwise the id of the address the rule is attached to.
RuleListing(ruleAddr) ==
  IF \A r \in RuleIds : ruleAddr[r] = 0 THEN EmptyDict
  ELSE [ipforwardingrule |->
          SelectSeq([r \in 1..MaxRule |->
                       [id |-> r, ipaddressid |-> ruleAddr[r],
                        protocol |-> "tcp"]],
                    LAMBDA x : ruleAddr[x.id] # 0)]

VmResponses ==
  {Response("listVirtualMachines", VmListing(present)) : present \in SUBSET VMs}
  \cup {SomethingElse}

AddrResponses ==
  {Response("listPublicIpAddresses", AddrListing(addrVm)) :
     addrVm \in [AddrIds -> {-1, 0} \cup VMs]}
  \cup {SomethingElse}

RuleResponses ==
  {Response("listIpForwardingRules", RuleListing(ruleAddr)) :
     ruleAddr \in [RuleIds -> {0} \cup AddrIds]}
  \cup {SomethingElse}

\* --- list_nodes
\* Lines 200-207: the dict vm id -> {address string -> address id} after
\* the first n records of addrs['publicipaddress'].
RECURSIVE PublicIps(_, _)
PublicIps(addrs, n) ==
  IF n = 0 THEN EmptyDict
  ELSE LET public_ips == PublicIps(addrs, n - 1)
           addr == addrs[n]
       IN IF "virtualmachineid" \notin DOMAIN addr THEN public_ips
          ELSE LET vm_id == addr.virtualmachineid
                   inner == DictGet(public_ips, vm_id, EmptyDict)
               IN DictSet(public_ips, vm_id,
                          DictSet(inner, addr.ipaddress, addr.id))

\* The iteration order of a dict of address strings is fixed by the hashes
\* of its keys, not by the order of insertion: here, the reverse of the
\* order in which the API lists the addresses.
HashOrder == [i \in 1..MaxAddr |-> IpOf(MaxAddr + 1 - i)]

\* dict.keys() / dict.items(): the keys of d in the iteration order of the
\* dict, taken from the ordering `rank` of all keys.
Keys(d, rank) == SelectSeq(rank, LAMBDA k : k \in DOMAIN d)

\* Line 225: the address objects of a node, in dict order.
NodeAddresses(d, rank) ==
  LET keys == Keys(d, rank) IN
  [i \in 1..Len(keys) |-> CloudStackAddress(d[keys[i]], keys[i])]

\* Lines 228-236: for every address of the node one listing of forwarding
\* rules (the request names no address), each listed rule bound to that
\* address.  rules after the first n addresses.
RECURSIVE NodeRules(_, _, _)
NodeRules(addrs, listing, n) ==
  IF n = 0 THEN <<>>
  ELSE NodeRules(addrs, listing, n - 1)
       \o [j \in 1..Len(listing) |->
             CloudStackForwardingRule(listing[j].id, addrs[n],
                                      Upper[listing[j].protocol])]

\* Lines 211-239: the node built for one listed virtual machine.
BuildNode(vm, public_ips, listing, rank) ==
  LET d == DictGet(public_ips, vm.id, EmptyDict)
      addrs == NodeAddresses(d, rank)
  IN Node(vm.id, Keys(d, rank), addrs, NodeRules(addrs, listing, Len(addrs)))

Running == [kind |-> "running", error |-> "", value |-> ""]

\* list_nodes is called: the caller asks for its nodes afresh and lets go
\* of the Node objects it held.
ListNodes ==
  /\ pc = "idle"
  /\ Begin("list_nodes", "", 0, NoAddress, 0, "")
  /\ pc' = "list_vms"
  /\ outcome' = Running
  /\ nodes' = EmptyDict
  /\ released' = EmptyDict
  /\ UNCHANGED signing

\* list_nodes line 197: listVirtualMachines.
ListNodesVMs ==
  /\ pc = "list_vms"
  /\ \E response \in VmResponses :
       LET r == SyncRequest("listVirtualMachines", response) IN
       /\ sync' = SyncRecord("listVirtualMachines", response)
       /\ requests' = Inc(requests)
       /\ IF r.kind = "raise"
          THEN Raise(r.error) /\ UNCHANGED listed
          ELSE /\ pc' = "list_addrs"
               /\ listed' = [listed EXCEPT !.vms = r.value]
               /\ UNCHANGED outcome
  /\ UNCHANGED <<nodes, call, job_id, result, pendings, slept, released>>
  /\ UNCHANGED signing

\* list_nodes line 198: listPublicIpAddresses.
ListNodesAddrs ==
  /\ pc = "list_addrs"
  /\ \E response \in AddrResponses :
       LET r == SyncRequest("listPublicIpAddresses", response) IN
       /\ sync' = SyncRecord("listPublicIpAddresses", response)
       /\ requests' = Inc(requests)
       /\ IF r.kind = "raise"
          THEN Raise(r.error) /\ UNCHANGED listed
          ELSE /\ pc' = "list_rules"
               /\ listed' = [listed EXCEPT !.addrs = r.value]
               /\ UNCHANGED outcome
  /\ UNCHANGED <<nodes, call, job_id, result, pendings, slept, released>>
  /\ UNCHANGED signing

\* The number of addresses bound to the listed virtual machines: one
\* listIpForwardingRules request is issued for each.
RuleRequests(vms, public_ips) ==
  LET Count(i) == Cardinality(DOMAIN DictGet(public_ips, vms[i].id, EmptyDict))
      sum[i \in 0..Len(vms)] == IF i = 0 THEN 0 ELSE sum[i - 1] + Count(i)
  IN sum[Len(vms)]

Min(a, b) == IF a < b THEN a ELSE b

\* list_nodes lines 200-241: build the nodes; every listIpForwardingRules
\* request of the call is answered by the same response.
ListNodesRules ==
  /\ pc = "list_rules"
  /\ \E response \in RuleResponses :
       LET rank == HashOrder
           vms == DictGet(listed.vms, "virtualmachine", <<>>)
           addrs == listed.addrs.publicipaddress
           public_ips == PublicIps(addrs, Len(addrs))
           n == RuleRequests(vms, public_ips)
           r == SyncRequest("listIpForwardingRules", response)
           listing == DictGet(r.value, "ipforwardingrule", <<>>)
       IN IF n = 0
          THEN /\ nodes' = [id \in {vms[i].id : i \in DOMAIN vms} |->
                              Node(id, <<>>, <<>>, <<>>)]
               /\ released' = [id \in {vms[i].id : i \in DOMAIN vms} |-> {}]
               /\ Return("nodes")
               /\ UNCHANGED <<sync, requests, listed>>
          ELSE /\ sync' = SyncRecord("listIpForwardingRules", response)
               /\ IF r.kind = "raise"
                  THEN /\ Raise(r.error)
                       /\ requests' = Inc(requests)
                       /\ UNCHANGED <<nodes, listed, released>>
                  ELSE /\ nodes' =
                            [id \in {vms[i].id : i \in DOMAIN vms} |->
                               BuildNode([id |-> id], public_ips, listing, rank)]
                       /\ released' =
                            [id \in {vms[i].id : i \in DOMAIN vms} |-> {}]
                       /\ Return("nodes")
                       /\ requests' = Min(requests + n, MaxRequests)
                       /\ listed' = [listed EXCEPT !.rules = listing]
  /\ UNCHANGED <<call, job_id, result, pendings, slept>>
  /\ UNCHANGED signing

\* --- ex_release_public_ip
\* ReleaseLocal without any removal.
ReleaseLocal_NoRemoval(node, address) ==
  IF IndexOfId(node.ip_addresses, address.id) = 0
  THEN [error |-> "ValueError", node |-> node]
  ELSE [error |-> "", node |-> node]

\* ReleaseLocal that lets an absent address pass instead of raising.
ReleaseLocal_IgnoreMissing(node, address) ==
  LET i == IndexOfId(node.ip_addresses, address.id)
      j == IndexOf(node.public_ip, address.address)
  IN [error |-> "",
      node |-> [node EXCEPT
                  !.ip_addresses = IF i = 0 THEN @ ELSE RemoveAt(@, i),
                  !.public_ip = IF j = 0 THEN @ ELSE RemoveAt(@, j)]]

\* ReleaseLocal without line 315: only the address object is removed.
ReleaseLocal_ObjectOnly(node, address) ==
  LET i == IndexOfId(node.ip_addresses, address.id) IN
  IF i = 0 THEN [error |-> "ValueError", node |-> node]
  ELSE [error |-> "", node |-> [node EXCEPT !.ip_addresses = RemoveAt(@, i)]]

\* Lines 314-315: list.remove on both lists of the node; a remove of an
\* absent element raises ValueError and leaves what was done before it.
ReleaseLocal(node, address) ==
  LET i == IndexOfId(node.ip_addresses, address.id) IN
  IF i = 0 THEN [error |-> "ValueError", node |-> node]
  ELSE LET removed == [node EXCEPT !.ip_addresses = RemoveAt(@, i)]
           j == IndexOf(node.public_ip, address.address)
       IN IF j = 0 THEN [error |-> "ValueError", node |-> removed]
          ELSE [error |-> "",
                node |-> [removed EXCEPT !.public_ip = RemoveAt(@, j)]]

\* The node holds the address: both of its lists name it.
Holds(node, address) ==
  /\ \E i \in DOMAIN node.ip_addresses : node.ip_addresses[i].id = address.id
  /\ \E i \in DOMAIN node.public_ip : node.public_ip[i] = address.address

\* ex_release_public_ip(node, address) up to its first remote call, the
\* _async_request of line 317.  Line 318 follows the return of that
\* request.
ReleasePublicIp ==
  /\ pc = "idle"
  /\ \E id \in DOMAIN nodes, address \in AddressObjects :
       LET r == ReleaseLocal(nodes[id], address) IN
       /\ Begin("ex_release_public_ip", "disableStaticNat", id, address, 0, "")
       /\ nodes' = [nodes EXCEPT ![id] = r.node]
       /\ released' = IF Holds(nodes[id], address)
                      THEN [released EXCEPT ![id] = @ \cup {address}]
                      ELSE released
       /\ IF r.error # ""
          THEN Raise(r.error)
          ELSE pc' = "submit" /\ outcome' = Running
  /\ UNCHANGED signing

\* --- ex_allocate_public_ip
\* ex_allocate_public_ip(node) up to its first remote call, the
\* _async_request of line 297.  Lines 298-309 follow the return of that
\* request.
AllocatePublicIp ==
  /\ pc = "idle"
  /\ \E id \in DOMAIN nodes :
       Begin("ex_allocate_public_ip", "associateIpAddress", id, NoAddress, 0, "")
  /\ pc' = "submit"
  /\ outcome' = Running
  /\ UNCHANGED <<nodes, released>>
  /\ UNCHANGED signing

\* --- ex_add_ip_forwarding_rule
\* The protocol check with ICMP let through.
ValidProtocol_WithIcmp(protocol) == Upper[protocol] \in {"TCP", "UDP", "ICMP"}

\* Lines 326-327: the protocol check.
ValidProtocol(protocol) == Upper[protocol] \in {"TCP", "UDP"}

\* ex_add_ip_forwarding_rule(node, address, protocol, ...) up to its remote
\* call, the _async_request of line 338.  Lines 339-343 follow the return
\* of that request.  The address is one the node holds.
AddIpForwardingRule ==
  /\ pc = "idle"
  /\ \E id \in DOMAIN nodes, protocol \in Protocols :
     \E address \in Range(nodes[id].ip_addresses) :
       /\ Begin("ex_add_ip_forwarding_rule", "createIpForwardingRule", id,
                address, 0, protocol)
       /\ IF ~ValidProtocol(protocol)
          THEN Return("None")
          ELSE pc' = "submit" /\ outcome' = Running
  /\ UNCHANGED <<nodes, released>>
  /\ UNCHANGED signing

\* --- ex_delete_ip_forwarding_rule
\* Line 348: list.remove of the rule (rules are equal when their ids are).
DeleteLocal(node, rule) ==
  LET i == IndexOfId(node.ip_forwarding_rules, rule.id) IN
  IF i = 0 THEN [error |-> "ValueError", node |-> node]
  ELSE [error |-> "",
        node |-> [node EXCEPT !.ip_forwarding_rules = RemoveAt(@, i)]]

\* A rule object a caller holds that is in no list of a held node.
StaleRules == {CloudStackForwardingRule(1, NoAddress, "TCP")}

\* ex_delete_ip_forwarding_rule(node, rule) up to its remote call, the
\* _async_request of line 349.
DeleteIpForwardingRule ==
  /\ pc = "idle"
  /\ \E id \in DOMAIN nodes :
     \E rule \in Range(nodes[id].ip_forwarding_rules) \cup StaleRules :
       LET r == DeleteLocal(nodes[id], rule) IN
       /\ Begin("ex_delete_ip_forwarding_rule", "deleteIpForwardingRule", id,
                rule.address, rule.id, rule.protocol)
       /\ nodes' = [nodes EXCEPT ![id] = r.node]
       /\ IF r.error # ""
          THEN Raise(r.error)
          ELSE pc' = "submit" /\ outcome' = Running
  /\ UNCHANGED released
  /\ UNCHANGED signing

\* --- create_node
\* Payloads of listZones and listNetworks: one entry or none.
ListPayloads(key) == {[k \in {key} |-> <<[id |-> 1]>>], [k \in {key} |-> <<>>]}

\* create_node(name, size, image, location): lines 252-253, the location is
\* looked up only when none is given.
CreateNode ==
  /\ pc = "idle"
  /\ Begin("create_node", "deployVirtualMachine", 0, NoAddress, 0, "")
  /\ \E given \in BOOLEAN : pc' = IF given THEN "networks" ELSE "zones"
  /\ outcome' = Running
  /\ UNCHANGED <<nodes, released>>
  /\ UNCHANGED signing

\* A listing request of create_node and the [0] taken of its list: line 253
\* (list_locations, lines 190-194) and lines 255-256.
FirstOf(command, key, next) ==
  \E response \in {Response(command, p) : p \in ListPayloads(key)}
                  \cup {SomethingElse} :
    LET r == SyncRequest(command, response) IN
    /\ sync' = SyncRecord(command, response)
    /\ requests' = Inc(requests)
    /\ IF r.kind = "raise" THEN Raise(r.error)
       ELSE IF Len(r.value[key]) = 0 THEN Raise("IndexError")
       ELSE pc' = next /\ UNCHANGED outcome
    /\ UNCHANGED <<nodes, call, job_id, result, pendings, slept, listed,
                   released>>

CreateNodeZones ==
  /\ pc = "zones"
  /\ FirstOf("listZones", "zone", "networks")
  /\ UNCHANGED signing

CreateNodeNetworks ==
  /\ pc = "networks"
  /\ FirstOf("listNetworks", "network", "submit")
  /\ UNCHANGED signing

Next ==
  \/ ListNodes
  \/ ListNodesVMs
  \/ ListNodesAddrs
  \/ ListNodesRules
  \/ ReleasePublicIp
  \/ AllocatePublicIp
  \/ AddIpForwardingRule
  \/ DeleteIpForwardingRule
  \/ CreateNode
  \/ CreateNodeZones
  \/ CreateNodeNetworks
  \/ AsyncSubmit
  \/ AsyncPoll
  \/ AsyncSleep

Spec == Init /\ [][Next]_vars

\* The blocking caller runs a started call on; nothing obliges it to start
\* another one.
CallStep ==
  \/ ListNodesVMs
  \/ ListNodesAddrs
  \/ ListNodesRules
  \/ CreateNodeZones
  \/ CreateNodeNetworks
  \/ AsyncSubmit
  \/ AsyncPoll
  \/ AsyncSleep

FairSpec == Spec /\ WF_vars(CallStep)

\* ------------------------------------------------- request signing
\* Strings are sequences of one-character strings.  The characters that
\* occur, in ASCII order.
Alphabet ==
  <<" ", "%", "&", "+", "0", "2", "3", "5", "6", "=", "A", "B", "D", "K",
    "a", "b", "d", "e", "i", "j", "k", "n", "o", "p", "r", "s", "y">>

\* The rank of a character in the ASCII order.
Ord(c) == CHOOSE i \in DOMAIN Alphabet : Alphabet[i] = c

\* str.lower() on one character and on a string.
LowerChar(c) ==
  CASE c = "A" -> "a" [] c = "B" -> "b" [] c = "D" -> "d" [] c = "K" -> "k"
    [] OTHER -> c

StrLower(s) == [i \in DOMAIN s |-> LowerChar(s[i])]

\* s < t for Python strings: lexicographic by character code.
RECURSIVE StrLess(_, _)
StrLess(s, t) ==
  IF t = <<>> THEN FALSE
  ELSE IF s = <<>> THEN TRUE
  ELSE IF Head(s) # Head(t) THEN Ord(Head(s)) < Ord(Head(t))
  ELSE StrLess(Tail(s), Tail(t))

\* urllib.quote_plus on one character that leaves "+" as it is.
QuoteChar_PlusSafe(c) ==
  CASE c = " " -> <<"+">>
    [] c = "%" -> <<"%", "2", "5">>
    [] c = "&" -> <<"%", "2", "6">>
    [] c = "=" -> <<"%", "3", "D">>
    [] OTHER -> <<c>>

\* urllib.quote_plus on one character: letters and digits are kept, a space
\* becomes "+", anything else becomes % and two upper-case hex digits.
QuoteChar(c) ==
  CASE c = " " -> <<"+">>
    [] c = "%" -> <<"%", "2", "5">>
    [] c = "&" -> <<"%", "2", "6">>
    [] c = "+" -> <<"%", "2", "B">>
    [] c = "=" -> <<"%", "3", "D">>
    [] OTHER -> <<c>>

RECURSIVE QuotePlus(_)
QuotePlus(s) ==
  IF s = <<>> THEN <<>> ELSE QuoteChar(Head(s)) \o QuotePlus(Tail(s))

\* urllib.urlencode of a list of pairs: quoted key, "=", quoted value,
\* joined with "&".
RECURSIVE UrlEncode(_)
UrlEncode(pairs) ==
  IF pairs = <<>> THEN <<>>
  ELSE LET first == QuotePlus(pairs[1][1]) \o <<"=">> \o QuotePlus(pairs[1][2])
       IN IF Len(pairs) = 1 THEN first
          ELSE first \o <<"&">> \o UrlEncode(Tail(pairs))

\* str.replace('+', '%20').
RECURSIVE ReplacePlus(_)
ReplacePlus(s) ==
  IF s = <<>> THEN <<>>
  ELSE (IF Head(s) = "+" THEN <<"%", "2", "0">> ELSE <<Head(s)>>)
       \o ReplacePlus(Tail(s))

\* Line 94: the keys lower-cased, the pairs in the order of params.items().
LowerKeys(pairs) == [i \in DOMAIN pairs |-> <<StrLower(pairs[i][1]), pairs[i][2]>>]

\* Line 95 left out: the pairs stay in the order they came in.
SortByKey_Unsorted(pairs) == pairs

\* Line 95: list.sort by the key alone; the sort is stable, so pairs with
\* equal keys keep their order.
RECURSIVE SortByKey(_)
SortByKey(pairs) ==
  IF pairs = <<>> THEN <<>>
  ELSE LET n == Len(pairs)
           sorted == SortByKey(SubSeq(pairs, 1, n - 1))
           x == pairs[n]
           k == Cardinality({i \in DOMAIN sorted : ~StrLess(x[1], sorted[i][1])})
       IN SubSeq(sorted, 1, k) \o <<x>> \o SubSeq(sorted, k + 1, Len(sorted))

\* Lines 94-97: the string that is fed to the HMAC.
SignedString(pairs) ==
  ReplacePlus(StrLower(UrlEncode(SortByKey(LowerKeys(pairs)))))

\* Lines 98-99: base64 of the HMAC-SHA1 of the string under the
\* connection's key; the digest is taken to be one-to-one in the message.
Signature(pairs) == [hmac |-> "sha1", msg |-> SignedString(pairs)]

\* Parameter names and values a request can carry.
ParamKeys == {<<"a">>, <<"b">>, <<"B">>}
ParamValues == {<<"a", " ", "b">>, <<"A", " ", "b">>, <<"a", "+", "b">>}

\* The keys of a list of pairs.
KeysOf(pairs) == {pairs[i][1] : i \in DOMAIN pairs}

\* params.items() of the dicts with at most MaxParams parameters: pairs
\* with different keys, in any order.
ParamLists ==
  {l \in UNION {[1..n -> ParamKeys \X ParamValues] : n \in 1..MaxParams} :
     \A i, j \in DOMAIN l : i # j => l[i][1] # l[j][1]}

\* Lines 87-89, add_default_params: the api key (user_id) and the response
\* format are set in the dict.
DefaultParams ==
  << <<<<"a", "p", "i", "K", "e", "y">>, <<"k", "e", "y">>>>,
     <<<<"r", "e", "s", "p", "o", "n", "s", "e">>, <<"j", "s", "o", "n">>>> >>

HasDefaults(pairs) == DefaultParams[1][1] \in KeysOf(pairs)

\* Two requests with the same parameter names are about to be made.
SignInit ==
  /\ Constructed
  /\ params \in ParamLists
  /\ other \in {l \in ParamLists : KeysOf(l) = KeysOf(params)}
  /\ signature = <<>>

\* add_default_params on the parameters of both requests.
AddDefaultParams ==
  /\ ~HasDefaults(params)
  /\ params' = params \o DefaultParams
  /\ other' = other \o DefaultParams
  /\ UNCHANGED <<nodes, call, pc, outcome, requests, sync, job_id, result,
                 pendings, slept, listed, released, signature>>

\* pre_connect_hook on the next request: params first, other second.
PreConnectHook ==
  /\ HasDefaults(params)
  /\ Len(signature) < 2
  /\ signature' = Append(signature,
                         Signature(IF signature = <<>> THEN params ELSE other))
  /\ UNCHANGED <<nodes, call, pc, outcome, requests, sync, job_id, result,
                 pendings, slept, listed, released, params, other>>

SignNext ==
  \/ AddDefaultParams
  \/ PreConnectHook

SignSpec == SignInit /\ [][SignNext]_vars

\* ------------------------------------------------------------ claims
\* Control is inside _async_request.
InAsync == pc \in {"submit", "poll", "sleep"}

Ids(s) == {s[i].id : i \in DOMAIN s}
Count(s, x) == Cardinality({i \in DOMAIN s : s[i] = x})

\* C1: a job whose polls are a finite run of pending statuses followed by a
\* terminal status makes _async_request return: once a poll has reported a
\* terminal status, control eventually leaves _async_request
\* (with AsyncResult of that poll).
C1_AsyncRequestReturns == (InAsync /\ JobStatus(result) # 0) ~> ~InAsync

\* C2: _sync_request returns the object under lower(command)+"response"
\* when the key is present and fails with MalformedResponseError, no other
\* error, when it is absent.
C2_SyncRequestContract ==
  sync.kind # "none" =>
    LET key == Lower[sync.command] \o "response" IN
    IF key \in DOMAIN sync.response
    THEN sync.kind = "ok" /\ sync.value = sync.response[key]
    ELSE sync.kind = "raise" /\ sync.error = "MalformedResponseError"

\* C3: an address released from a node that held it is in neither list of
\* the node from the moment before the first remote call of the release
\* (no request issued yet) and for as long as the node is held, whatever
\* the remote calls answer.
C3_ReleasedAddressGone ==
  /\ \A id \in DOMAIN nodes : \A address \in released[id] :
       /\ address.id \notin Ids(nodes[id].ip_addresses)
       /\ address.address \notin Range(nodes[id].public_ip)
  /\ (call.op = "ex_release_public_ip" /\ outcome.error # "ValueError")
       => call.address \in released[call.node]

\* C3 witness: the release of a held address whose disableStaticNat job
\* has reported failure.
C3_Witness ==
  /\ call.op = "ex_release_public_ip"
  /\ call.address \in released[call.node]
  /\ pc = "sleep"
  /\ JobStatus(result) = 2

\* C4: for every held node the address strings of the objects in
\* 'ip_addresses' and the strings in public_ip are the same multiset.
C4_ListsConsistent ==
  \A id \in DOMAIN nodes :
    LET strings == [i \in DOMAIN nodes[id].ip_addresses |->
                      nodes[id].ip_addresses[i].address]
    IN \A a \in AddrIds :
         Count(strings, IpOf(a)) = Count(nodes[id].public_ip, IpOf(a))

\* C4 witness: a release that raised part-way through its remote calls,
\* from a node that still holds another address.
C4_Witness ==
  /\ call.op = "ex_release_public_ip"
  /\ outcome.kind = "raised"
  /\ requests > 0
  /\ released[call.node] # {}
  /\ Len(nodes[call.node].public_ip) > 0

\* C5: every forwarding rule of a held node references an address that is
\* in the address list of the same node.
C5_RulesReferenceHeldAddress ==
  \A id \in DOMAIN nodes :
    \A i \in DOMAIN nodes[id].ip_forwarding_rules :
      nodes[id].ip_forwarding_rules[i].address.id
        \in Ids(nodes[id].ip_addresses)

\* C6: ex_add_ip_forwarding_rule with a protocol that is neither TCP nor
\* UDP in any letter case returns None, issues no request and leaves the
\* nodes as they were.
C6_InvalidProtocolRejected ==
  [][(pc = "idle" /\ call'.op = "ex_add_ip_forwarding_rule"
        /\ Upper[call'.protocol] \notin {"TCP", "UDP"})
      => /\ pc' = "idle"
         /\ outcome' = [kind |-> "returned", error |-> "", value |-> "None"]
         /\ requests' = 0
         /\ sync' = NoSync
         /\ nodes' = nodes]_vars

\* C6 witness: a rule with protocol ICMP was asked for on a node that has
\* rules.
C6_Witness ==
  /\ call.op = "ex_add_ip_forwarding_rule"
  /\ call.protocol = "ICMP"
  /\ pc = "idle"
  /\ outcome.value = "None"
  /\ Len(nodes[call.node].ip_forwarding_rules) > 0

\* C7: ex_allocate_public_ip returns (None when the associateIpAddress job
\* failed or enableStaticNat did not succeed, the new address when both
\* succeeded): once the job has reported a terminal status, the call
\* leaves the _async_request of line 297.
C7_AllocateReturns ==
  (call.op = "ex_allocate_public_ip" /\ InAsync /\ JobStatus(result) # 0)
    ~> (call.op = "ex_allocate_public_ip" => ~InAsync)

\* C8: a node returned by list_nodes has exactly the listed addresses whose
\* virtualmachineid is the node's id, and as many forwarding rules as are
\* attached to those addresses, each remote rule counted once.
C8_ListNodesShape ==
  (call.op = "list_nodes" /\ outcome.kind = "returned") =>
    \A id \in DOMAIN nodes :
      LET addrs == listed.addrs.publicipaddress
          mine == {addrs[i].id : i \in
                     {j \in DOMAIN addrs :
                        /\ "virtualmachineid" \in DOMAIN addrs[j]
                        /\ addrs[j].virtualmachineid = id}}
          attached == {i \in DOMAIN listed.rules :
                         listed.rules[i].ipaddressid \in mine}
      IN /\ Ids(nodes[id].ip_addresses) = mine
         /\ Len(nodes[id].ip_addresses) = Cardinality(mine)
         /\ Len(nodes[id].ip_forwarding_rules) = Cardinality(attached)

\* C9: a poll that reported the job pending is followed by the
\* poll-interval wait before the next poll is issued.
C9_WaitBetweenPolls ==
  [][(pc = "poll" /\ pendings > 0 /\ JobStatus(result) = 0) => slept]_vars

\* C10: a submit or poll response of an asynchronous request that lacks its
\* '<command>response' key ends the request with the malformed-response
\* failure: nothing is returned and the call is over, so no further request
\* is issued for the job.
C10_MalformedEndsAsync ==
  (sync.kind = "raise" /\ sync.command \in {call.command, "queryAsyncJobResult"})
    => /\ pc = "idle"
       /\ outcome.kind = "raised"
       /\ outcome.error = "MalformedResponseError"

\* C13: ex_add_ip_forwarding_rule with protocol TCP or UDP whose
\* createIpForwardingRule job succeeds returns the new rule and appends it
\* to the node's rule list: once the job has reported success, the call
\* leaves the _async_request of line 338.
C13_AddRuleReturns ==
  (call.op = "ex_add_ip_forwarding_rule" /\ InAsync /\ JobStatus(result) = 1)
    ~> (call.op = "ex_add_ip_forwarding_rule" => ~InAsync)

\* C14: when the deployVirtualMachine job succeeds, create_node returns a
\* Node: once the job has reported success, the call leaves the
\* _async_request of line 258 and returns.
C14_CreateNodeReturns ==
  (call.op = "create_node" /\ InAsync /\ JobStatus(result) = 1)
    ~> (call.op = "create_node" => (pc = "idle" /\ outcome.kind # "running"))

\* C15: when the deployVirtualMachine job reaches the failure status,
\* create_node ends in an error.
C15_CreateNodeFails ==
  (call.op = "create_node" /\ InAsync /\ JobStatus(result) = 2)
    ~> (call.op = "create_node" => (pc = "idle" /\ outcome.kind = "raised"))

\* C16: once ex_delete_ip_forwarding_rule has passed its local removal, the
\* rule object it was given is not in the node's rule list, before the
\* request and whatever the job answers.
C16_DeletedRuleAbsent ==
  (call.op = "ex_delete_ip_forwarding_rule" /\ outcome.error # "ValueError")
    => CloudStackForwardingRule(call.rule, call.address, call.protocol)
         \notin Range(nodes[call.node].ip_forwarding_rules)

\* C17: when the createIpForwardingRule job reaches the failure status,
\* ex_add_ip_forwarding_rule hands the failure to its caller as a value:
\* the call leaves the _async_request of line 338 (and appends no rule).
C17_AddRuleFailureSurfaces ==
  (call.op = "ex_add_ip_forwarding_rule" /\ InAsync /\ JobStatus(result) = 2)
    ~> (call.op = "ex_add_ip_forwarding_rule" => ~InAsync)

\* C18: no poll is issued for a job once a poll has reported a terminal
\* status for it, so the polls issued are the pending responses plus one.
C18_NoPollAfterTerminal == [][pc = "poll" => JobStatus(result) = 0]_vars

\* C19: ex_release_public_ip with an address that no element of the node's
\* 'ip_addresses' equals raises an error, issues no request and leaves the
\* nodes as they were.
C19_ReleaseOfAbsentAddress ==
  [][(/\ pc = "idle"
      /\ call'.op = "ex_release_public_ip"
      /\ call'.address.id \notin Ids(nodes[call'.node].ip_addresses))
     => /\ pc' = "idle"
        /\ outcome' = [kind |-> "raised", error |-> "ValueError", value |-> ""]
        /\ requests' = 0
        /\ sync' = NoSync
        /\ nodes' = nodes]_vars

\* C19 witness: the release of an address the node does not hold has
\* raised, on a node that holds another address.
C19_Witness ==
  /\ call.op = "ex_release_public_ip"
  /\ outcome.error = "ValueError"
  /\ pc = "idle"
  /\ Len(nodes[call.node].ip_addresses) > 0
  /\ call.address.id \notin Ids(nodes[call.node].ip_addresses)

\* The value a list of pairs gives to key k.
ValueOf(pairs, k) == pairs[CHOOSE i \in DOMAIN pairs : pairs[i][1] = k][2]

\* Both requests are signed.
BothSigned == Len(signature) = 2

\* No two keys of the pairs are the same once lower-cased.
DistinctLowerKeys(pairs) ==
  \A i, j \in DOMAIN pairs :
    i # j => StrLower(pairs[i][1]) # StrLower(pairs[j][1])

\* C11 as stated: two parameter sets with the same keys that differ in the
\* value of some parameter, be it only in letter case, give different
\* signed strings and so different signatures.
C11_AnyValueChangeChangesSignature ==
  (BothSigned /\ \E k \in KeysOf(params) : ValueOf(params, k) # ValueOf(other, k))
    => signature[1] # signature[2]

\* C11, amended: two parameter sets with the same keys, no two of them the
\* same once lower-cased, that differ in the value of some parameter by
\* more than letter case give different signed strings and so different
\* signatures.
C11_ValueChangeChangesSignature ==
  (/\ BothSigned
   /\ DistinctLowerKeys(params)
   /\ \E k \in KeysOf(params) :
        StrLower(ValueOf(params, k)) # StrLower(ValueOf(other, k)))
    => signature[1].msg # signature[2].msg

\* C11 witness: two signed requests with distinct lower-cased keys, one
\* with the value "a b" where the other has "a+b".
C11_Witness ==
  /\ BothSigned
  /\ DistinctLowerKeys(params)
  /\ \E k \in KeysOf(params) :
       /\ ValueOf(params, k) = <<"a", " ", "b">>
       /\ ValueOf(other, k) = <<"a", "+", "b">>
  /\ signature[1].msg # signature[2].msg

\* C12: for a parameter set whose lower-cased keys are distinct, every
\* order of the (key, value) pairs gives the same signed string and the
\* same signature, and so does signing the same set twice.
C12_OrderIndependent ==
  (/\ BothSigned
   /\ DistinctLowerKeys(params)
   /\ Range(params) = Range(other))
    => /\ signature[1].msg = signature[2].msg
       /\ signature[1] = signature[2]

\* C12 witness: the same parameters signed in two different orders that
\* are not both the sorted one.
C12_Witness ==
  /\ BothSigned
  /\ DistinctLowerKeys(params)
  /\ Range(params) = Range(other)
  /\ params # other
  /\ signature[1] = signature[2]

====
